---- MODULE Spec2Model ----
(***************************************************************************)
(* The video asset cache of fitclip (utils/videoUtils.ts): an IndexedDB    *)
(* object store 'videos' keyed by path, filled by fetchVideoWithCache,     *)
(* bounded in size by cleanupCache and in age by isVideoCached.            *)
(*                                                                         *)
(* Granularity: one step is one event-loop task.  A task is the delivery   *)
(* of an IndexedDB request result, of an open request or of a network      *)
(* response, together with every promise continuation it resolves (these   *)
(* run as microtasks before the next task).  IndexedDB transactions on the *)
(* one object store are kept in creation order in txq: a readwrite         *)
(* transaction runs after every transaction created before it, a readonly  *)
(* one after every readwrite transaction created before it.                *)
(***************************************************************************)
EXTENDS Integers, Sequences, FiniteSets, TLC

\* ------------------------------------------------------------ constants
MB == 1024 * 1024
MAX_CACHE_SIZE == 500 * MB
\* indexedDB.open('FitnessVideoCache', 1)
DB_VERSION == 1
CACHE_EXPIRY_DAYS == 30
\* MAX_CACHE_SIZE * 0.8 (exact: 524288000 * 0.8 = 419430400 in IEEE doubles)
CLEANUP_TARGET == (MAX_CACHE_SIZE \div 10) * 8

\* ------------------------------------------------------------ bounds
\* The clock (in days) stops at MaxTime; a caller makes at most MaxCalls calls.
MaxTime == 32
MaxCalls == 3
\* The calls that two concurrent callers make in all
MaxConcurrentCalls == 2
\* The calls of loadVideo the player makes
MaxLoads == 2
\* The length of the exerciseIds of a routine, and the calls of fetchData
MaxIds == 3
MaxFetches == 2
\* The status requests of one polling loop
MaxPolls == 3
\* The clock advances by about half the expiry period, so that ages of exactly
\* CACHE_EXPIRY_DAYS and of one day more both occur.
TickSteps == {CACHE_EXPIRY_DAYS \div 2, CACHE_EXPIRY_DAYS \div 2 + 1}

\* Video paths, as sequences of characters.
Paths == { <<"p">>, <<"q">>, <<"/", "p">> }
\* Payloads the server may answer with.
Blobs == { [data |-> "x", size |-> 200 * MB], [data |-> "y", size |-> 450 * MB] }
NoBlob == [data |-> "none", size |-> 0]

Callers == {1}
\* Two callers whose calls overlap (two components mounted together)
ConcurrentCallers == {1, 2}
\* and the paths they ask for
ConcurrentPaths == { <<"p">>, <<"q">> }
\* The exported functions a caller uses.  getCachedVideoUrl is the one entry
\* point to fetchVideoWithCache (VideoPlayer.loadVideo calls no other).
Ops == {"getCachedVideoUrl", "isVideoCached", "getCacheStats", "clearVideoCache"}
PathOps == {"getCachedVideoUrl", "isVideoCached"}

VARIABLES
  now,      \* the clock: new Date(), in days
  db,       \* the module-level handle: "null" or "open"
  videos,   \* the object store 'videos': a set of entries, one per path
  txq,      \* the transactions created and not yet run, in creation order
  calls,    \* per caller: the call in progress and its local variables
  cleanup,  \* the local variables of the latest cleanupCache callback
  ncalls,   \* the number of calls started
  idb,      \* the database 'FitnessVideoCache' on disk: its version and stores
  player,   \* the state of the mounted VideoPlayer and its loadVideo calls
  hook,     \* the state of useExercisesByIds and of its fetchData call
  poll,     \* the promise of pollJobStatus and its poll() closure
  job       \* the state of useJobStatus and its pollStatus() closure

vars == <<now, db, videos, txq, calls, cleanup, ncalls, idb, player, hook, poll, job>>

\* ------------------------------------------------------------ dates
\* Date.prototype.toISOString: a fixed-width digit string (here: two digits of days)
ToISOString(t) == << t \div 10, t % 10 >>
\* new Date(isoString)
ParseDate(s) == s[1] * 10 + s[2]
\* String comparison, as IndexedDB orders string keys
RECURSIVE SeqLess(_, _)
SeqLess(a, b) ==
  IF Len(a) = 0 THEN Len(b) > 0
  ELSE IF Len(b) = 0 THEN FALSE
  ELSE IF Head(a) # Head(b) THEN Head(a) < Head(b)
  ELSE SeqLess(Tail(a), Tail(b))

CharCode(ch) == CASE ch = "/" -> 47 [] ch = "p" -> 112 [] ch = "q" -> 113
PathCodes(p) == [i \in 1..Len(p) |-> CharCode(p[i])]

\* ------------------------------------------------------------ URLs
\* videoPath.replace(/^\/+/, '')
RECURSIVE StripLeadingSlashes(_)
StripLeadingSlashes(p) ==
  IF Len(p) > 0 /\ Head(p) = "/" THEN StripLeadingSlashes(Tail(p)) ELSE p

\* `${API_ROOT_URL}/${normalizedPath}`
getVideoUrl(videoPath) == <<"API_ROOT_URL", "/">> \o StripLeadingSlashes(videoPath)

\* URL.createObjectURL(blob): a local reference to that blob
createObjectURL(blob) == <<"blob:", blob.data>>

\* ------------------------------------------------------------ the store
NoEntry == [path |-> <<>>, blob |-> NoBlob, size |-> 0, timestamp |-> <<>>]

\* store.get(path): request.result, undefined (NoEntry) when absent
StoreGet(path) ==
  IF \E e \in videos : e.path = path
  THEN CHOOSE e \in videos : e.path = path
  ELSE NoEntry

\* Mutant: the store has no key path, put adds a record next to the old one
StorePutAppends(S, entry) == S \cup {entry}

\* store.put(entry): keyPath 'path', replaces the record of the same key
StorePut(S, entry) == {e \in S : e.path # entry.path} \cup {entry}

\* store.delete(path)
StoreDelete(S, path) == {e \in S : e.path # path}

RECURSIVE SumSizes(_)
SumSizes(S) ==
  IF S = {} THEN 0
  ELSE LET e == CHOOSE x \in S : TRUE IN e.size + SumSizes(S \ {e})

\* The order of the 'timestamp' index: by timestamp string, then by primary key
IndexLess(e, f) ==
  \/ SeqLess(e.timestamp, f.timestamp)
  \/ e.timestamp = f.timestamp /\ SeqLess(PathCodes(e.path), PathCodes(f.path))

\* timestampIndex.getAll()
RECURSIVE TimestampIndexGetAll(_)
TimestampIndexGetAll(S) ==
  IF S = {} THEN <<>>
  ELSE LET m == CHOOSE e \in S : \A f \in S \ {e} : IndexLess(e, f)
       IN <<m>> \o TimestampIndexGetAll(S \ {m})

\* ------------------------------------------------------------ results
NoRes == [kind |-> "pending", blob |-> NoBlob, src |-> "", url |-> <<>>,
          value |-> FALSE, totalSize |-> 0, entryCount |-> 0]
BlobRes(b, src) == [NoRes EXCEPT !.kind = "blob", !.blob = b, !.src = src]
ErrorRes(what) == [NoRes EXCEPT !.kind = "error", !.src = what]
UrlRes(u) == [NoRes EXCEPT !.kind = "url", !.url = u]
BoolRes(v) == [NoRes EXCEPT !.kind = "bool", !.value = v]
StatsRes(t, n, s) ==
  [NoRes EXCEPT !.kind = "stats", !.totalSize = t, !.entryCount = n, !.value = s]
VoidRes == [NoRes EXCEPT !.kind = "void"]

\* ------------------------------------------------------------ transactions
\* A transaction on ['videos']: its request, the caller awaiting it (0: nobody)
\* and the exported function that created it.  entry: the entry to put, the
\* expired entry that isVideoCached read, the entry whose put started the sweep;
\* paths: the keys a sweep deletes, entries: those entries as the sweep read them.
Txn(kind, c, op, path) ==
  [kind |-> kind, call |-> c, op |-> op, path |-> path,
   entry |-> NoEntry, paths |-> <<>>, entries |-> {}]
ReadOnly(t) ==
  t.kind \in {"isVideoCached", "getCachedVideo", "cleanupGetAll", "statsGetAll"}

\* What a call of getCachedVideoUrl knows of the caller's previous call, when
\* that was a call of getCachedVideoUrl for the same path: the path, the blob
\* that fetchVideoWithCache returned, the entry that cacheVideo put, whether a
\* cleanup sweep has deleted that entry since, and the statistics of the store
\* when this call began.
NoPrev == [path |-> <<>>, blob |-> NoBlob, wrote |-> NoEntry, evicted |-> FALSE,
           totalSize |-> 0, entryCount |-> 0, latest |-> FALSE]

\* A call: the function called, its argument, where it is suspended, and its
\* local variables: result (request.result in isVideoCached), checkedAt (new
\* Date() there), found (request.result in getCachedVideo), response and blob
\* (in fetchVideoWithCache), wrote (entry in cacheVideo, once put), fetched (what
\* fetchVideoWithCache settled with), res (what the function called settled with).
\* evicted: a cleanup sweep has deleted the entry `wrote`.  failures: the
\* requests to the store that failed during the call.  latest: the timestamp of
\* `wrote` was strictly greater than that of every entry stored when it was put.
IdleCall == [op |-> "none", path |-> <<>>, pc |-> "idle", res |-> NoRes,
             fetched |-> NoRes, result |-> NoEntry, checkedAt |-> 0,
             found |-> NoEntry, response |-> "none", blob |-> NoBlob,
             wrote |-> NoEntry, prev |-> NoPrev, evicted |-> FALSE,
             failures |-> {}, latest |-> FALSE]

NoCleanup == [ran |-> FALSE, entries |-> <<>>, totalSize |-> 0,
              deleted |-> <<>>, applied |-> FALSE, put |-> NoEntry]

\* ------------------------------------------------------------ the components
\* The `exercises` prop of VideoPlayer: the list the API returned, ids distinct
Exercises == << [id |-> 1, video_path |-> <<"p">>],
                [id |-> 2, video_path |-> <<"q">>],
                [id |-> 3, video_path |-> <<"/", "p">>] >>
NoExercise == [id |-> 0, video_path |-> <<>>]

\* One call of loadVideo: its argument and the await it is at
NoLoad == [exercise |-> NoExercise, pc |-> "none"]

\* VideoPlayer before it is mounted.  loads: the calls of loadVideo in flight;
\* nloads: how many were made; shown: the id of the exercise whose load called
\* setVideoUrl last; input: the last key or swipe (flip changes at each one);
\* reachable: whether the server answers during this session.
NoPlayer == [currentExercise |-> NoExercise, videoUrl |-> <<>>, isLoading |-> TRUE,
             error |-> "null", loads |-> [c \in ConcurrentCallers |-> NoLoad],
             nloads |-> 0, shown |-> 0,
             input |-> [flip |-> FALSE, dir |-> "none"], reachable |-> TRUE]

\* useExercisesByIds before it is mounted: the APIState of useAPI, and of the
\* apiCall in flight its position, loop index and local `exercises`.
\* bulkFailed, requested, outcomes: what the server was asked and answered.
NoHook == [exerciseIds |-> <<>>, data |-> [null |-> TRUE, value |-> <<>>],
           loading |-> TRUE, error |-> "null", pc |-> "unmounted", i |-> 0,
           exercises |-> <<>>, bulkFailed |-> FALSE, requested |-> <<>>,
           outcomes |-> <<>>, nfetches |-> 0]

\* A job-status response, and none yet
NoResponse == [status |-> "none", result |-> "null"]

\* pollJobStatus before it is called: the promise it returns, the position of
\* poll(), the number of status requests issued, the last response handled
NoPoll == [pc |-> "idle", promise |-> "pending", value |-> "none",
           requests |-> 0, last |-> NoResponse]

\* useJobStatus with jobId null
NoJob == [jobId |-> "null", status |-> "null", result |-> "null", error |-> "null",
          pc |-> "idle", requests |-> 0]

\* No component is mounted and pollJobStatus has not been called
NoApp == player = NoPlayer /\ hook = NoHook /\ poll = NoPoll /\ job = NoJob

\* The database before it is first created: version 0, no object store.
\* stored: the version that was on disk when the page loaded.
NoDatabase == [stored |-> 0, version |-> 0, stores |-> {}]

Init ==
  /\ now = 0
  /\ db = "null"
  /\ videos = {}
  /\ txq = <<>>
  /\ calls = [c \in Callers |-> IdleCall]
  /\ cleanup = NoCleanup
  /\ ncalls = 0
  /\ idb = NoDatabase
  /\ NoApp

\* ------------------------------------------------------------ the functions
\* getCachedVideoUrl: the object URL of the blob, or the direct URL on any failure
\* Mutant: no catch block, the error of fetchVideoWithCache is the result
getCachedVideoUrlRethrows(videoPath, r) ==
  IF r.kind = "blob" THEN UrlRes(createObjectURL(r.blob)) ELSE r

getCachedVideoUrl(videoPath, r) ==
  IF r.kind = "blob"
  THEN UrlRes(createObjectURL(r.blob))
  ELSE UrlRes(getVideoUrl(videoPath))

\* fetchVideoWithCache settles with r (a blob, or the error it rethrows), and
\* getCachedVideoUrl, which awaits it, with a URL
FetchReturn(cr, r) ==
  [cr EXCEPT !.pc = "done", !.fetched = r, !.res = getCachedVideoUrl(cr.path, r)]

\* Mutant: now >= expiryDate, an entry aged exactly CACHE_EXPIRY_DAYS is expired
IsExpiredAtBoundary(result, today) ==
  today >= ParseDate(result.timestamp) + CACHE_EXPIRY_DAYS

\* Mutant: the expiry date is never tested
IsExpiredNever(result, today) == FALSE

\* isVideoCached: new Date() > expiryDate, expiryDate being the entry's
\* timestamp plus CACHE_EXPIRY_DAYS
IsExpired(result, today) ==
  today > ParseDate(result.timestamp) + CACHE_EXPIRY_DAYS

\* Mutant: isVideoCached only reports an expired entry, without deleting it
ExpiryDeletionNone(q, op, videoPath, result, expired) == q

\* Mutant: isVideoCached deletes whatever entry it finds, expired or not
ExpiryDeletionAlways(q, op, videoPath, result, expired) ==
  IF result # NoEntry
  THEN Append(q, [Txn("expiryDelete", 0, op, videoPath) EXCEPT !.entry = result])
  ELSE q

\* isVideoCached: the transaction it creates for an expired entry, deleting
\* videoPath (entry: the expired result that caused it)
ExpiryDeletion(q, op, videoPath, result, expired) ==
  IF expired
  THEN Append(q, [Txn("expiryDelete", 0, op, videoPath) EXCEPT !.entry = result])
  ELSE q

\* Mutant: fetchVideoWithCache ignores the answer of isVideoCached and
\* fetches again, a fresh entry is revalidated
IsCachedReturnRevalidates(cr, c, cached, q) ==
  IF cr.op = "isVideoCached"
  THEN [call |-> [cr EXCEPT !.pc = "done", !.res = BoolRes(cached)], q |-> q]
  ELSE [call |-> [cr EXCEPT !.pc = "fetch"], q |-> q]

\* isVideoCached resolves to `cached`; what its caller does next
IsCachedReturn(cr, c, cached, q) ==
  IF cr.op = "isVideoCached"
  THEN [call |-> [cr EXCEPT !.pc = "done", !.res = BoolRes(cached)], q |-> q]
  ELSE IF cached
  THEN [call |-> [cr EXCEPT !.pc = "getCachedVideo"],
        q |-> Append(q, Txn("getCachedVideo", c, cr.op, cr.path))]
  ELSE [call |-> [cr EXCEPT !.pc = "fetch"], q |-> q]

\* cacheVideo: the entry it builds, and the readwrite transaction that puts it
CacheEntry(videoPath, blob, today) ==
  [path |-> videoPath, blob |-> blob, size |-> blob.size,
   timestamp |-> ToISOString(today)]

PutTxn(c, op, videoPath, blob) ==
  [Txn("put", c, op, videoPath) EXCEPT !.entry = CacheEntry(videoPath, blob, now)]

\* Mutant: the test of request.result is inverted, a stored entry is rejected
getCachedVideoRejects(found) == ErrorRes("Video not found in cache")

\* getCachedVideo: resolve(result.blob), or reject when there is no result
getCachedVideo(found) ==
  IF found # NoEntry
  THEN BlobRes(found.blob, "cache")
  ELSE ErrorRes("Video not found in cache")

RECURSIVE SumSeq(_)
SumSeq(entries) ==
  IF entries = <<>> THEN 0 ELSE Head(entries).size + SumSeq(Tail(entries))

\* Mutant: the loop stops as soon as the total is back under MAX_CACHE_SIZE
RECURSIVE CleanupLoopToMax(_, _, _, _)
CleanupLoopToMax(entries, i, totalSize, deleted) ==
  IF i > Len(entries) \/ totalSize <= MAX_CACHE_SIZE
  THEN deleted
  ELSE CleanupLoopToMax(entries, i + 1, totalSize - entries[i].size,
                        Append(deleted, entries[i].path))

\* Mutant: the loop goes on while the total is at the target (< for <=)
RECURSIVE CleanupLoopStrict(_, _, _, _)
CleanupLoopStrict(entries, i, totalSize, deleted) ==
  IF i > Len(entries) \/ totalSize < CLEANUP_TARGET
  THEN deleted
  ELSE CleanupLoopStrict(entries, i + 1, totalSize - entries[i].size,
                         Append(deleted, entries[i].path))

\* cleanupCache: the deletion loop over the entries, in the order of getAll()
RECURSIVE CleanupLoop(_, _, _, _)
CleanupLoop(entries, i, totalSize, deleted) ==
  IF i > Len(entries) \/ totalSize <= CLEANUP_TARGET
  THEN deleted
  ELSE CleanupLoop(entries, i + 1, totalSize - entries[i].size,
                   Append(deleted, entries[i].path))

\* Mutant: the test of the total is inverted, the callback never deletes
CleanupDeletionsNever(entries) ==
  IF SumSeq(entries) < MAX_CACHE_SIZE
  THEN CleanupLoop(entries, 1, SumSeq(entries), <<>>)
  ELSE <<>>

\* cleanupCache: the paths its callback deletes
CleanupDeletions(entries) ==
  IF SumSeq(entries) > MAX_CACHE_SIZE
  THEN CleanupLoop(entries, 1, SumSeq(entries), <<>>)
  ELSE <<>>

RECURSIVE DeleteAll(_, _)
DeleteAll(S, paths) ==
  IF paths = <<>> THEN S ELSE DeleteAll(StoreDelete(S, Head(paths)), Tail(paths))

\* A cleanup sweep removes the entries `removed`: what a call notes of it
NoteEvicted(cr, removed) ==
  [cr EXCEPT !.evicted = @ \/ cr.wrote \in removed,
             !.prev.evicted = @ \/ cr.prev.wrote \in removed]

\* ------------------------------------------------------------ actions
Remove(q, i) == SubSeq(q, 1, i - 1) \o SubSeq(q, i + 1, Len(q))

\* Transaction i may run: every transaction created before it has run, or it
\* is readonly and so is every transaction created before it.
Runnable(i) ==
  /\ i \in 1..Len(txq)
  /\ i = 1 \/ \A j \in 1..i : ReadOnly(txq[j])

FirstTxnKind(op) ==
  CASE op \in PathOps -> "isVideoCached"
    [] op = "getCacheStats" -> "statsGetAll"
    [] op = "clearVideoCache" -> "clear"

\* A caller calls one of the exported functions; each begins with initDB()
BeginCall(c, op, path) ==
  /\ calls[c].pc \in {"idle", "done"}
  /\ LET old == calls[c]
         cr == [IdleCall EXCEPT
                  !.op = op, !.path = path,
                  !.prev = IF op = "getCachedVideoUrl" /\ old.op = op
                              /\ old.path = path
                           THEN [path |-> old.path,
                                 blob |-> IF old.fetched.kind = "blob"
                                          THEN old.fetched.blob ELSE NoBlob,
                                 wrote |-> old.wrote,
                                 evicted |-> old.evicted,
                                 latest |-> old.latest,
                                 totalSize |-> SumSizes(videos),
                                 entryCount |-> Cardinality(videos)]
                           ELSE NoPrev]
     IN
     IF db = "open"
     THEN /\ calls' = [calls EXCEPT ![c] = [cr EXCEPT !.pc = FirstTxnKind(op)]]
          /\ txq' = Append(txq, Txn(FirstTxnKind(op), c, op, path))
     ELSE /\ calls' = [calls EXCEPT ![c] = [cr EXCEPT !.pc = "open"]]
          /\ txq' = txq
  /\ UNCHANGED <<now, db, videos, cleanup, idb>>

Start(c, op, path) ==
  /\ ncalls < MaxCalls
  /\ ncalls' = ncalls + 1
  /\ BeginCall(c, op, path)
  /\ UNCHANGED <<player, hook, poll, job>>

\* initDB: request.onupgradeneeded, which creates the object store 'videos'
\* and its indexes when the database has none
onupgradeneeded(database) ==
  IF "videos" \notin database.stores
  THEN [database EXCEPT !.version = DB_VERSION, !.stores = @ \cup {"videos"}]
  ELSE [database EXCEPT !.version = DB_VERSION]

\* Mutant: request.onsuccess empties the object store each time it opens it
OpenSuccessRecreates(c) ==
  /\ calls[c].pc = "open"
  /\ idb.version <= DB_VERSION
  /\ db' = "open"
  /\ idb' = onupgradeneeded(idb)
  /\ videos' = {}
  /\ LET cr == calls[c] IN
     IF cr.blob # NoBlob
     THEN /\ calls' = [calls EXCEPT ![c] = [cr EXCEPT !.pc = "put"]]
          /\ txq' = Append(txq, PutTxn(c, cr.op, cr.path, cr.blob))
     ELSE /\ calls' = [calls EXCEPT ![c] = [cr EXCEPT !.pc = FirstTxnKind(cr.op)]]
          /\ txq' = Append(txq, Txn(FirstTxnKind(cr.op), c, cr.op, cr.path))
  /\ UNCHANGED <<now, cleanup, ncalls, player, hook, poll, job>>

\* initDB: indexedDB.open('FitnessVideoCache', 1) succeeds, which it does when
\* the version on disk is not newer: request.onupgradeneeded when it is older,
\* then request.onsuccess
OpenSuccess(c) ==
  /\ calls[c].pc = "open"
  /\ idb.version <= DB_VERSION
  /\ db' = "open"
  /\ idb' = IF idb.version < DB_VERSION THEN onupgradeneeded(idb) ELSE idb
  /\ videos' = IF "videos" \in idb.stores THEN videos ELSE {}
  /\ LET cr == calls[c] IN
     IF cr.blob # NoBlob
     THEN \* inside cacheVideo
          /\ calls' = [calls EXCEPT ![c] = [cr EXCEPT !.pc = "put"]]
          /\ txq' = Append(txq, PutTxn(c, cr.op, cr.path, cr.blob))
     ELSE /\ calls' = [calls EXCEPT ![c] = [cr EXCEPT !.pc = FirstTxnKind(cr.op)]]
          /\ txq' = Append(txq, Txn(FirstTxnKind(cr.op), c, cr.op, cr.path))
  /\ UNCHANGED <<now, cleanup, ncalls, player, hook, poll, job>>

\* Mutant: getCacheStats has no catch block, the open error is its result
OpenErrorThrows(c) ==
  /\ calls[c].pc = "open"
  /\ LET cr == [calls[c] EXCEPT !.failures = @ \cup {"open"}] IN
     calls' = [calls EXCEPT ![c] =
       IF cr.blob # NoBlob
       THEN FetchReturn(cr, BlobRes(cr.blob, "network"))
       ELSE CASE cr.op = "getCacheStats"
                   -> [cr EXCEPT !.pc = "done", !.res = ErrorRes("request.error")]
              [] cr.op = "clearVideoCache"
                   -> [cr EXCEPT !.pc = "done", !.res = VoidRes]
              [] OTHER -> IsCachedReturn(cr, c, FALSE, txq).call]
  /\ UNCHANGED <<now, db, videos, txq, cleanup, ncalls, idb, player, hook, poll, job>>

\* initDB: request.onerror, and what each caller's catch block does with it
OpenError(c) ==
  /\ calls[c].pc = "open"
  /\ LET cr == [calls[c] EXCEPT !.failures = @ \cup {"open"}] IN
     calls' = [calls EXCEPT ![c] =
       IF cr.blob # NoBlob
       THEN FetchReturn(cr, BlobRes(cr.blob, "network"))
       ELSE CASE cr.op = "getCacheStats"
                   -> [cr EXCEPT !.pc = "done", !.res = StatsRes(0, 0, FALSE)]
              [] cr.op = "clearVideoCache"
                   -> [cr EXCEPT !.pc = "done", !.res = VoidRes]
              [] OTHER -> IsCachedReturn(cr, c, FALSE, txq).call]
  /\ UNCHANGED <<now, db, videos, txq, cleanup, ncalls, idb, player, hook, poll, job>>

\* isVideoCached: request.onsuccess of store.get(videoPath)
RunIsVideoCached(i) ==
  /\ Runnable(i)
  /\ txq[i].kind = "isVideoCached"
  /\ LET c == txq[i].call
         cr == [calls[c] EXCEPT !.result = StoreGet(txq[i].path), !.checkedAt = now]
         expired == cr.result # NoEntry /\ IsExpired(cr.result, now)
         q == ExpiryDeletion(Remove(txq, i), cr.op, cr.path, cr.result, expired)
         next == IsCachedReturn(cr, c, cr.result # NoEntry /\ ~expired, q)
     IN /\ calls' = [calls EXCEPT ![c] = next.call]
        /\ txq' = next.q
  /\ UNCHANGED <<now, db, videos, cleanup, ncalls, idb, player, hook, poll, job>>

\* isVideoCached: request.onerror of store.get(videoPath), resolve(false)
RunIsVideoCachedError(i) ==
  /\ Runnable(i)
  /\ txq[i].kind = "isVideoCached"
  /\ LET c == txq[i].call
         cr == [calls[c] EXCEPT !.failures = @ \cup {"get"}]
         next == IsCachedReturn(cr, c, FALSE, Remove(txq, i))
     IN /\ calls' = [calls EXCEPT ![c] = next.call]
        /\ txq' = next.q
  /\ UNCHANGED <<now, db, videos, cleanup, ncalls, idb, player, hook, poll, job>>

\* isVideoCached: deleteStore.delete(videoPath) takes effect
RunExpiryDelete ==
  /\ Len(txq) > 0
  /\ Head(txq).kind = "expiryDelete"
  /\ videos' = StoreDelete(videos, Head(txq).path)
  /\ txq' = Tail(txq)
  /\ UNCHANGED <<now, db, calls, cleanup, ncalls, idb, player, hook, poll, job>>

\* getCachedVideo: request.onsuccess of store.get(videoPath)
RunGetCachedVideo(i) ==
  /\ Runnable(i)
  /\ txq[i].kind = "getCachedVideo"
  /\ LET c == txq[i].call
         cr == [calls[c] EXCEPT !.found = StoreGet(txq[i].path)]
     IN calls' = [calls EXCEPT ![c] = FetchReturn(cr, getCachedVideo(cr.found))]
  /\ txq' = Remove(txq, i)
  /\ UNCHANGED <<now, db, videos, cleanup, ncalls, idb, player, hook, poll, job>>

\* getCachedVideo: request.onerror of store.get(videoPath), reject(request.error)
RunGetCachedVideoError(i) ==
  /\ Runnable(i)
  /\ txq[i].kind = "getCachedVideo"
  /\ LET c == txq[i].call
         cr == [calls[c] EXCEPT !.failures = @ \cup {"get"}]
     IN calls' = [calls EXCEPT ![c] = FetchReturn(cr, ErrorRes("request.error"))]
  /\ txq' = Remove(txq, i)
  /\ UNCHANGED <<now, db, videos, cleanup, ncalls, idb, player, hook, poll, job>>

\* fetch(url) resolves with response.ok, and response.blob() with the payload;
\* cacheVideo(videoPath, blob) begins
FetchOk(c, blob) ==
  /\ calls[c].pc = "fetch"
  /\ LET cr == [calls[c] EXCEPT !.response = "ok", !.blob = blob] IN
     IF db = "open"
     THEN /\ calls' = [calls EXCEPT ![c] = [cr EXCEPT !.pc = "put"]]
          /\ txq' = Append(txq, PutTxn(c, cr.op, cr.path, blob))
     ELSE /\ calls' = [calls EXCEPT ![c] = [cr EXCEPT !.pc = "open"]]
          /\ txq' = txq
  /\ UNCHANGED <<now, db, videos, cleanup, ncalls, idb, player, hook, poll, job>>

\* Mutant: response.ok is not tested, the body of the failed response is cached
FetchErrorCaches(c) ==
  /\ calls[c].pc = "fetch"
  /\ db = "open"
  /\ LET blob == CHOOSE b \in Blobs : TRUE
         cr == [calls[c] EXCEPT !.response = "error", !.blob = blob, !.pc = "put"]
     IN /\ calls' = [calls EXCEPT ![c] = cr]
        /\ txq' = Append(txq, PutTxn(c, cr.op, cr.path, blob))
  /\ UNCHANGED <<now, db, videos, cleanup, ncalls, idb, player, hook, poll, job>>

\* fetch(url) rejects, or resolves with !response.ok: throw, log, rethrow
FetchError(c) ==
  /\ calls[c].pc = "fetch"
  /\ calls' = [calls EXCEPT ![c] =
       FetchReturn([calls[c] EXCEPT !.response = "error"], ErrorRes("HTTP"))]
  /\ UNCHANGED <<now, db, videos, txq, cleanup, ncalls, idb, player, hook, poll, job>>

\* cacheVideo: request.onsuccess of store.put(entry), then cleanupCache(), which
\* returns once it has issued timestampIndex.getAll(); then `return blob`
RunPut ==
  /\ Len(txq) > 0
  /\ Head(txq).kind = "put"
  /\ LET c == Head(txq).call
         cr == [calls[c] EXCEPT
                  !.wrote = Head(txq).entry,
                  !.latest = \A e \in videos :
                                SeqLess(e.timestamp, Head(txq).entry.timestamp)]
     IN /\ videos' = StorePut(videos, Head(txq).entry)
        /\ txq' = Append(Tail(txq), [Txn("cleanupGetAll", 0, cr.op, <<>>)
                                       EXCEPT !.entry = Head(txq).entry])
        /\ calls' = [calls EXCEPT ![c] = FetchReturn(cr, BlobRes(cr.blob, "network"))]
        /\ cleanup' = NoCleanup
  /\ UNCHANGED <<now, db, ncalls, idb, player, hook, poll, job>>

\* Mutant: cacheVideo has no catch block, the error of the put fails the get
RunPutErrorRethrows ==
  /\ Len(txq) > 0
  /\ Head(txq).kind = "put"
  /\ LET c == Head(txq).call
         cr == [calls[c] EXCEPT !.failures = @ \cup {"put"}]
     IN calls' = [calls EXCEPT ![c] = FetchReturn(cr, ErrorRes("request.error"))]
  /\ txq' = Tail(txq)
  /\ UNCHANGED <<now, db, videos, cleanup, ncalls, idb, player, hook, poll, job>>

\* cacheVideo: request.onerror of store.put(entry), caught and logged
RunPutError ==
  /\ Len(txq) > 0
  /\ Head(txq).kind = "put"
  /\ LET c == Head(txq).call
         cr == [calls[c] EXCEPT !.failures = @ \cup {"put"}]
     IN calls' = [calls EXCEPT ![c] = FetchReturn(cr, BlobRes(cr.blob, "network"))]
  /\ txq' = Tail(txq)
  /\ UNCHANGED <<now, db, videos, cleanup, ncalls, idb, player, hook, poll, job>>

\* cleanupCache: request.onsuccess of timestampIndex.getAll()
RunCleanupGetAll(i) ==
  /\ Runnable(i)
  /\ txq[i].kind = "cleanupGetAll"
  /\ LET entries == TimestampIndexGetAll(videos)
         deleted == CleanupDeletions(entries)
         rest == Remove(txq, i)
     IN /\ cleanup' = [ran |-> TRUE, entries |-> entries,
                       totalSize |-> SumSeq(entries), deleted |-> deleted,
                       applied |-> (deleted = <<>>), put |-> txq[i].entry]
        /\ txq' = IF deleted # <<>>
                  THEN Append(rest, [Txn("cleanupDelete", 0, txq[i].op, <<>>)
                                       EXCEPT !.paths = deleted,
                                              !.entries = {entries[k] : k \in 1..Len(deleted)}])
                  ELSE rest
  /\ UNCHANGED <<now, db, videos, calls, ncalls, idb, player, hook, poll, job>>

\* cleanupCache: the deleteStore.delete(entry.path) requests take effect
RunCleanupDelete ==
  /\ Len(txq) > 0
  /\ Head(txq).kind = "cleanupDelete"
  /\ videos' = DeleteAll(videos, Head(txq).paths)
  /\ cleanup' = [cleanup EXCEPT !.applied = TRUE]
  /\ calls' = [c \in DOMAIN calls |-> NoteEvicted(calls[c], videos \ videos')]
  /\ txq' = Tail(txq)
  /\ UNCHANGED <<now, db, ncalls, idb, player, hook, poll, job>>

\* Mutant: getCacheStats counts the entries that have not expired
RunStatsFreshOnly(i) ==
  /\ Runnable(i)
  /\ txq[i].kind = "statsGetAll"
  /\ LET c == txq[i].call
         fresh == {e \in videos : ~IsExpired(e, now)}
     IN calls' = [calls EXCEPT ![c] =
          [calls[c] EXCEPT !.pc = "done",
                           !.res = StatsRes(SumSizes(fresh), Cardinality(fresh), TRUE)]]
  /\ txq' = Remove(txq, i)
  /\ UNCHANGED <<now, db, videos, cleanup, ncalls, idb, player, hook, poll, job>>

\* getCacheStats: request.onsuccess of store.getAll()
RunStats(i) ==
  /\ Runnable(i)
  /\ txq[i].kind = "statsGetAll"
  /\ LET c == txq[i].call IN
     calls' = [calls EXCEPT ![c] =
       [calls[c] EXCEPT !.pc = "done",
                        !.res = StatsRes(SumSizes(videos), Cardinality(videos), TRUE)]]
  /\ txq' = Remove(txq, i)
  /\ UNCHANGED <<now, db, videos, cleanup, ncalls, idb, player, hook, poll, job>>

\* getCacheStats: request.onerror of store.getAll()
RunStatsError(i) ==
  /\ Runnable(i)
  /\ txq[i].kind = "statsGetAll"
  /\ LET c == txq[i].call IN
     calls' = [calls EXCEPT ![c] =
       [calls[c] EXCEPT !.pc = "done", !.res = StatsRes(0, 0, FALSE),
                        !.failures = @ \cup {"getAll"}]]
  /\ txq' = Remove(txq, i)
  /\ UNCHANGED <<now, db, videos, cleanup, ncalls, idb, player, hook, poll, job>>

\* Mutant: store.delete of one key instead of store.clear()
RunClearDeletesOne ==
  /\ Len(txq) > 0
  /\ Head(txq).kind = "clear"
  /\ videos' = StoreDelete(videos, <<"p">>)
  /\ calls' = [calls EXCEPT ![Head(txq).call] =
                 [calls[Head(txq).call] EXCEPT !.pc = "done", !.res = VoidRes]]
  /\ txq' = Tail(txq)
  /\ UNCHANGED <<now, db, cleanup, ncalls, idb, player, hook, poll, job>>

\* clearVideoCache: request.onsuccess of store.clear()
RunClear ==
  /\ Len(txq) > 0
  /\ Head(txq).kind = "clear"
  /\ videos' = {}
  /\ calls' = [calls EXCEPT ![Head(txq).call] =
                 [calls[Head(txq).call] EXCEPT !.pc = "done", !.res = VoidRes]]
  /\ txq' = Tail(txq)
  /\ UNCHANGED <<now, db, cleanup, ncalls, idb, player, hook, poll, job>>

\* clearVideoCache: request.onerror of store.clear(); the promise is returned
\* without await, so the catch block does not see the rejection
RunClearError ==
  /\ Len(txq) > 0
  /\ Head(txq).kind = "clear"
  /\ calls' = [calls EXCEPT ![Head(txq).call] =
                 [calls[Head(txq).call] EXCEPT !.pc = "done",
                    !.res = ErrorRes("request.error"),
                    !.failures = @ \cup {"clear"}]]
  /\ txq' = Tail(txq)
  /\ UNCHANGED <<now, db, videos, cleanup, ncalls, idb, player, hook, poll, job>>

\* Mutant: isVideoAccessible has no catch block, a rejected fetch is its result
isVideoAccessibleRethrows(outcome) ==
  IF outcome = "rejected" THEN ErrorRes("fetch") ELSE BoolRes(outcome = "ok")

\* isVideoAccessible: response.ok of the HEAD request, false when fetch rejects
isVideoAccessible(outcome) == BoolRes(outcome = "ok")

\* A caller calls isVideoAccessible(videoPath): fetch(getVideoUrl(videoPath),
\* { method: 'HEAD' }); no initDB, no transaction
StartProbe(c, path) ==
  /\ calls[c].pc \in {"idle", "done"}
  /\ ncalls < MaxCalls
  /\ ncalls' = ncalls + 1
  /\ calls' = [calls EXCEPT ![c] =
       [IdleCall EXCEPT !.op = "isVideoAccessible", !.path = path, !.pc = "head",
                        !.res = UrlRes(getVideoUrl(path))]]
  /\ UNCHANGED <<now, db, videos, txq, cleanup, idb, player, hook, poll, job>>

\* The HEAD request answers (ok or not), or fetch rejects
ProbeReturn(c, outcome) ==
  /\ calls[c].pc = "head"
  /\ calls' = [calls EXCEPT ![c] =
       [calls[c] EXCEPT !.pc = "done", !.response = outcome,
                        !.res = isVideoAccessible(outcome)]]
  /\ UNCHANGED <<now, db, videos, txq, cleanup, ncalls, idb, player, hook, poll, job>>

\* Time passes
Tick(d) ==
  /\ now + d <= MaxTime
  /\ now' = now + d
  /\ UNCHANGED <<db, videos, txq, calls, cleanup, ncalls, idb, player, hook, poll, job>>

Next ==
  \/ \E c \in Callers, op \in PathOps, path \in Paths : Start(c, op, path)
  \/ \E c \in Callers, op \in Ops \ PathOps : Start(c, op, <<>>)
  \/ \E c \in Callers : OpenSuccess(c)
  \/ \E i \in 1..Len(txq) : RunIsVideoCached(i)
  \/ RunExpiryDelete
  \/ \E i \in 1..Len(txq) : RunGetCachedVideo(i)
  \/ \E c \in Callers, blob \in Blobs : FetchOk(c, blob)
  \/ \E c \in Callers : FetchError(c)
  \/ RunPut
  \/ \E i \in 1..Len(txq) : RunCleanupGetAll(i)
  \/ RunCleanupDelete
  \/ \E i \in 1..Len(txq) : RunStats(i)
  \/ RunClear
  \/ \E d \in TickSteps : Tick(d)

Spec == Init /\ [][Next]_vars

\* The same with the failures of the store: indexedDB.open and the requests
\* that have an onerror handler may fail
NextF ==
  \/ Next
  \/ \E c \in Callers : OpenError(c)
  \/ RunPutError
  \/ \E i \in 1..Len(txq) : RunIsVideoCachedError(i)
  \/ \E i \in 1..Len(txq) : RunGetCachedVideoError(i)
  \/ \E i \in 1..Len(txq) : RunStatsError(i)
  \/ RunClearError

SpecF == Init /\ [][NextF]_vars

\* The cache functions and isVideoAccessible
NextP ==
  \/ Next
  \/ \E c \in Callers, path \in Paths : StartProbe(c, path)
  \/ \E c \in Callers, outcome \in {"ok", "notok", "rejected"} : ProbeReturn(c, outcome)

SpecP == Init /\ [][NextP]_vars

\* Two callers at once, each calling getCachedVideoUrl: the calls interleave at
\* every request callback and network response
InitC ==
  /\ now = 0
  /\ db = "null"
  /\ videos = {}
  /\ txq = <<>>
  /\ calls = [c \in ConcurrentCallers |-> IdleCall]
  /\ cleanup = NoCleanup
  /\ ncalls = 0
  /\ idb = NoDatabase
  /\ NoApp

NextC ==
  \/ \E c \in ConcurrentCallers, path \in ConcurrentPaths :
        ncalls < MaxConcurrentCalls /\ Start(c, "getCachedVideoUrl", path)
  \/ \E c \in ConcurrentCallers : OpenSuccess(c)
  \/ \E i \in 1..Len(txq) : RunIsVideoCached(i)
  \/ RunExpiryDelete
  \/ \E i \in 1..Len(txq) : RunGetCachedVideo(i)
  \/ \E c \in ConcurrentCallers, blob \in Blobs : FetchOk(c, blob)
  \/ \E c \in ConcurrentCallers : FetchError(c)
  \/ RunPut
  \/ \E i \in 1..Len(txq) : RunCleanupGetAll(i)
  \/ RunCleanupDelete
  \/ Tick(CACHE_EXPIRY_DAYS \div 2 + 1)

SpecC == InitC /\ [][NextC]_vars

\* An entry that an earlier page load left in the store
OldEntry == CacheEntry(<<"p">>, [data |-> "x", size |-> 200 * MB], 0)

\* A page load that finds on disk no database, the database of this version
\* (empty or with an entry), or the database of a newer version
InitV ==
  /\ now = 0
  /\ db = "null"
  /\ txq = <<>>
  /\ calls = [c \in Callers |-> IdleCall]
  /\ cleanup = NoCleanup
  /\ ncalls = 0
  /\ \E v \in 0..(DB_VERSION + 1) :
       /\ idb = [stored |-> v, version |-> v,
                 stores |-> IF v = 0 THEN {} ELSE {"videos"}]
       /\ videos \in (IF v = 0 THEN {{}} ELSE {{}, {OldEntry}})
  /\ NoApp

\* indexedDB.open fails with VersionError when the version on disk is newer
NextV ==
  \/ \E c \in Callers, op \in PathOps, path \in ConcurrentPaths : Start(c, op, path)
  \/ \E c \in Callers : OpenSuccess(c)
  \/ \E c \in Callers : idb.version > DB_VERSION /\ OpenError(c)
  \/ \E i \in 1..Len(txq) : RunIsVideoCached(i)
  \/ RunExpiryDelete
  \/ \E i \in 1..Len(txq) : RunGetCachedVideo(i)
  \/ \E c \in Callers, blob \in Blobs : FetchOk(c, blob)
  \/ \E c \in Callers : FetchError(c)
  \/ RunPut
  \/ \E i \in 1..Len(txq) : RunCleanupGetAll(i)
  \/ RunCleanupDelete
  \/ Tick(CACHE_EXPIRY_DAYS \div 2 + 1)

SpecV == InitV /\ [][NextV]_vars

\* Two callers at once on a page load that finds an entry of an earlier visit
InitR ==
  /\ now = 0
  /\ db = "null"
  /\ videos = {OldEntry}
  /\ txq = <<>>
  /\ calls = [c \in ConcurrentCallers |-> IdleCall]
  /\ cleanup = NoCleanup
  /\ ncalls = 0
  /\ idb = [stored |-> DB_VERSION, version |-> DB_VERSION, stores |-> {"videos"}]
  /\ NoApp

SpecR == InitR /\ [][NextC]_vars

\* ------------------------------------------------------------ VideoPlayer
\* The keys and the touch points of the gestures
Keys == {"ArrowLeft", "ArrowRight"}
Touches == {[x |-> 0, y |-> 0], [x |-> 100, y |-> 0]}
minSwipeDistance == 50
\* The clips of the exercises: 450 MB each, two of them exceed the cache
Clips == {b \in Blobs : b.size > CLEANUP_TARGET}

\* getFallbackVideoUrl: the embedded placeholder, whatever the path
getFallbackVideoUrl(videoPath) == <<"data:video/mp4;base64">>

\* exercises.findIndex(ex => ex.id === id): 0-based, -1 when absent
findIndex(exercises, id) ==
  IF \E k \in 1..Len(exercises) : exercises[k].id = id
  THEN (CHOOSE k \in 1..Len(exercises) :
          /\ exercises[k].id = id
          /\ \A j \in 1..(k - 1) : exercises[j].id # id) - 1
  ELSE -1

currentIndex(pl) == findIndex(Exercises, pl.currentExercise.id)

\* exercises[k], k 0-based
At(exercises, k) == exercises[k + 1]

\* Mutant: goToNext wraps around to the first clip
goToNextWraps(pl) ==
  IF currentIndex(pl) < Len(Exercises) - 1
  THEN At(Exercises, currentIndex(pl) + 1)
  ELSE At(Exercises, 0)

\* goToNext: the exercise it passes to setCurrentExercise (the current one:
\* it does not call it)
goToNext(pl) ==
  IF currentIndex(pl) < Len(Exercises) - 1
  THEN At(Exercises, currentIndex(pl) + 1)
  ELSE pl.currentExercise

goToPrevious(pl) ==
  IF currentIndex(pl) > 0
  THEN At(Exercises, currentIndex(pl) - 1)
  ELSE pl.currentExercise

\* loadVideo(exercise) up to its first await, isVideoCached(exercise.video_path)
loadVideo(pl, c, exercise) ==
  /\ pl.loads[c].pc = "none"
  /\ pl.nloads < MaxLoads
  /\ BeginCall(c, "isVideoCached", exercise.video_path)
  /\ player' = [pl EXCEPT !.isLoading = TRUE, !.error = "null",
                          !.nloads = @ + 1,
                          !.loads[c] = [exercise |-> exercise, pc |-> "isVideoCached"]]
  /\ UNCHANGED <<ncalls, hook, poll, job>>

\* useEffect(() => loadVideo(currentExercise), [currentExercise]) at mount
Mount(c) ==
  /\ player.currentExercise # NoExercise
  /\ player.nloads = 0
  /\ loadVideo(player, c, player.currentExercise)

\* A key or a swipe asked for `target`: setCurrentExercise(target) and the
\* effect that follows the render, or nothing when target is the current one
Navigate(dir, target) ==
  /\ player.nloads > 0
  /\ LET pl == [player EXCEPT !.input = [flip |-> ~player.input.flip, dir |-> dir]] IN
     IF target = player.currentExercise
     THEN /\ player' = pl
          /\ UNCHANGED <<now, db, videos, txq, calls, cleanup, ncalls, idb, hook, poll, job>>
     ELSE \E c \in ConcurrentCallers :
            loadVideo([pl EXCEPT !.currentExercise = target], c, target)

\* handleKeyPress
handleKeyPress(key) ==
  IF key = "ArrowLeft"
  THEN Navigate("previous", goToPrevious(player))
  ELSE Navigate("next", goToNext(player))

Abs(n) == IF n < 0 THEN -n ELSE n

\* onTouchEnd with the points of onTouchStart and of the last onTouchMove
onTouchEnd(touchStart, touchEnd) ==
  LET distanceX == touchStart.x - touchEnd.x
      distanceY == touchStart.y - touchEnd.y
      isHorizontalSwipe == Abs(distanceX) > Abs(distanceY)
  IN IF isHorizontalSwipe /\ Abs(distanceX) > minSwipeDistance
     THEN IF distanceX > 0
          THEN Navigate("previous", goToPrevious(player))
          ELSE Navigate("next", goToNext(player))
     ELSE Navigate("none", player.currentExercise)

\* loadVideo from the settling of an awaited call with r to its end:
\* setVideoUrl(url), or the catch block with the placeholder; then finally
loadVideoReturn(pl, c, r) ==
  [pl EXCEPT
     !.videoUrl = IF r.kind = "error"
                  THEN getFallbackVideoUrl(pl.loads[c].exercise.video_path)
                  ELSE r.url,
     !.error = IF r.kind = "error" THEN "Failed to load video" ELSE @,
     !.shown = pl.loads[c].exercise.id,
     !.isLoading = FALSE,
     !.loads[c] = NoLoad]

\* loadVideo after `await isVideoCached(...)`: both branches call getCachedVideoUrl
AfterIsVideoCached(c) ==
  /\ player.loads[c].pc = "isVideoCached"
  /\ calls[c].pc = "done"
  /\ IF calls[c].res.kind = "error"
     THEN /\ player' = loadVideoReturn(player, c, calls[c].res)
          /\ UNCHANGED <<now, db, videos, txq, calls, cleanup, idb>>
     ELSE /\ BeginCall(c, "getCachedVideoUrl", player.loads[c].exercise.video_path)
          /\ player' = [player EXCEPT !.loads[c].pc = "getCachedVideoUrl"]
  /\ UNCHANGED <<ncalls, hook, poll, job>>

\* loadVideo after `await getCachedVideoUrl(...)`
AfterGetCachedVideoUrl(c) ==
  /\ player.loads[c].pc = "getCachedVideoUrl"
  /\ calls[c].pc = "done"
  /\ player' = loadVideoReturn(player, c, calls[c].res)
  /\ UNCHANGED <<now, db, videos, txq, calls, cleanup, ncalls, idb, hook, poll, job>>

\* The player is opened on one exercise of the list, with the server up or
\* down, on a first visit or with the entry an earlier visit left in the store
InitPl ==
  /\ now = 0
  /\ db = "null"
  /\ txq = <<>>
  /\ calls = [c \in ConcurrentCallers |-> IdleCall]
  /\ cleanup = NoCleanup
  /\ ncalls = 0
  /\ \/ videos = {} /\ idb = NoDatabase
     \/ /\ videos = {OldEntry}
        /\ idb = [stored |-> DB_VERSION, version |-> DB_VERSION, stores |-> {"videos"}]
  /\ \E k \in 1..Len(Exercises), up \in BOOLEAN :
       player = [NoPlayer EXCEPT !.currentExercise = Exercises[k], !.reachable = up]
  /\ hook = NoHook /\ poll = NoPoll /\ job = NoJob

NextPl ==
  \/ \E c \in ConcurrentCallers : Mount(c)
  \/ \E key \in Keys : handleKeyPress(key)
  \/ \E touchStart \in Touches, touchEnd \in Touches : onTouchEnd(touchStart, touchEnd)
  \/ \E c \in ConcurrentCallers : AfterIsVideoCached(c)
  \/ \E c \in ConcurrentCallers : AfterGetCachedVideoUrl(c)
  \/ \E c \in ConcurrentCallers : OpenSuccess(c)
  \/ \E i \in 1..Len(txq) : RunIsVideoCached(i)
  \/ \E i \in 1..Len(txq) : RunGetCachedVideo(i)
  \/ \E c \in ConcurrentCallers, blob \in Clips : player.reachable /\ FetchOk(c, blob)
  \/ \E c \in ConcurrentCallers : FetchError(c)
  \/ RunPut
  \/ \E i \in 1..Len(txq) : RunCleanupGetAll(i)
  \/ RunCleanupDelete

SpecPl == InitPl /\ [][NextPl]_vars

\* ------------------------------------------------------------ useExercisesByIds
\* The ids the API knows, and the exerciseIds a routine may list
ExerciseIds == {1, 2}
ExerciseIdLists == UNION {[1..n -> ExerciseIds] : n \in 0..MaxIds}

\* fitclipAPI.getExercise(exerciseId) resolved: the exercise with that id
Exercise(exerciseId) == [id |-> exerciseId]

\* useAPI.fetchData: apiCall() resolved with data
useAPIResolve(h, data) ==
  [h EXCEPT !.data = [null |-> FALSE, value |-> data],
            !.loading = FALSE, !.error = "null", !.pc = "done"]

\* useAPI.fetchData: apiCall() rejected, the catch block
useAPIReject(h, message) ==
  [h EXCEPT !.data = [null |-> TRUE, value |-> <<>>],
            !.loading = FALSE, !.error = message, !.pc = "done"]

\* The for loop of the fallback at exerciseIds[i] (1-based): the next request,
\* or `return exercises`
ForNext(h, i) ==
  IF i > Len(h.exerciseIds)
  THEN useAPIResolve(h, h.exercises)
  ELSE [h EXCEPT !.pc = "individual", !.i = i,
                 !.requested = Append(@, h.exerciseIds[i])]

\* useAPI.fetchData at mount (useEffect) or by refetch: setState(loading), then
\* the apiCall of useExercisesByIds issues the bulk request
fetchData ==
  /\ hook.pc \in {"mount", "done"}
  /\ hook.nfetches < MaxFetches
  /\ hook' = [hook EXCEPT !.loading = TRUE, !.error = "null", !.pc = "bulk",
                          !.i = 0, !.exercises = <<>>, !.bulkFailed = FALSE,
                          !.requested = <<>>, !.outcomes = <<>>,
                          !.nfetches = @ + 1]
  /\ UNCHANGED <<now, db, videos, txq, calls, cleanup, ncalls, idb, player, poll, job>>

\* fitclipAPI.getExercisesByIds(exerciseIds) resolves
BulkOk ==
  /\ hook.pc = "bulk"
  /\ hook' = useAPIResolve(hook,
       [k \in 1..Len(hook.exerciseIds) |-> Exercise(hook.exerciseIds[k])])
  /\ UNCHANGED <<now, db, videos, txq, calls, cleanup, ncalls, idb, player, poll, job>>

\* fitclipAPI.getExercisesByIds(exerciseIds) rejects: the fallback begins
BulkError ==
  /\ hook.pc = "bulk"
  /\ hook' = ForNext([hook EXCEPT !.bulkFailed = TRUE, !.exercises = <<>>], 1)
  /\ UNCHANGED <<now, db, videos, txq, calls, cleanup, ncalls, idb, player, poll, job>>

\* fitclipAPI.getExercise(exerciseId) resolves: exercises.push(exercise)
ExerciseOk ==
  /\ hook.pc = "individual"
  /\ hook' = ForNext([hook EXCEPT
                        !.exercises = Append(@, Exercise(hook.exerciseIds[hook.i])),
                        !.outcomes = Append(@, "ok")], hook.i + 1)
  /\ UNCHANGED <<now, db, videos, txq, calls, cleanup, ncalls, idb, player, poll, job>>

\* Mutant: the inner catch rethrows, the first failure ends the apiCall
ExerciseErrorRethrows ==
  /\ hook.pc = "individual"
  /\ hook' = useAPIReject([hook EXCEPT !.outcomes = Append(@, "error")],
                          "Failed to fetch exercise")
  /\ UNCHANGED <<now, db, videos, txq, calls, cleanup, ncalls, idb, player, poll, job>>

\* fitclipAPI.getExercise(exerciseId) rejects: logged, the loop continues
ExerciseError ==
  /\ hook.pc = "individual"
  /\ hook' = ForNext([hook EXCEPT !.outcomes = Append(@, "error")], hook.i + 1)
  /\ UNCHANGED <<now, db, videos, txq, calls, cleanup, ncalls, idb, player, poll, job>>

\* A component that calls useExercisesByIds(exerciseIds) is about to mount
InitH ==
  /\ now = 0
  /\ db = "null"
  /\ videos = {}
  /\ txq = <<>>
  /\ calls = [c \in Callers |-> IdleCall]
  /\ cleanup = NoCleanup
  /\ ncalls = 0
  /\ idb = NoDatabase
  /\ \E ids \in ExerciseIdLists :
       hook = [NoHook EXCEPT !.exerciseIds = ids, !.pc = "mount"]
  /\ player = NoPlayer /\ poll = NoPoll /\ job = NoJob

NextH ==
  \/ fetchData
  \/ BulkOk
  \/ BulkError
  \/ ExerciseOk
  \/ ExerciseError

SpecH == InitH /\ [][NextH]_vars

\* ------------------------------------------------------------ job status
\* What GET /job-status/{jobId} may answer.  result: null, a ProcessResponse,
\* or { error }
Responses ==
  [status : {"in_progress", "done", "failed"}, result : {"null", "process", "error"}]

\* The server repeats the status and result of a job that has ended
ServerAnswers(last, response) ==
  last.status \in {"done", "failed"} => response = last

\* fitclipAPI.pollJobStatus(jobId): the promise is created and poll() issues
\* the first status request
pollJobStatus ==
  /\ poll.pc = "idle"
  /\ poll' = [poll EXCEPT !.pc = "request", !.requests = 1]
  /\ UNCHANGED <<now, db, videos, txq, calls, cleanup, ncalls, idb, player, hook, job>>

\* poll(): getJobStatus resolved with `status`
PollResponse(status) ==
  /\ poll.pc = "request"
  /\ ServerAnswers(poll.last, status)
  /\ poll' = IF status.status = "done" /\ status.result # "null"
             THEN [poll EXCEPT !.pc = "settled", !.promise = "resolved",
                               !.value = status.result, !.last = status]
             ELSE IF status.status = "failed"
             THEN [poll EXCEPT !.pc = "settled", !.promise = "rejected",
                               !.value = IF status.result = "error"
                                         THEN "result.error" ELSE "Job failed",
                               !.last = status]
             ELSE [poll EXCEPT !.pc = "timer", !.last = status]
  /\ UNCHANGED <<now, db, videos, txq, calls, cleanup, ncalls, idb, player, hook, job>>

\* poll(): getJobStatus rejected, reject(error)
PollRequestError ==
  /\ poll.pc = "request"
  /\ poll' = [poll EXCEPT !.pc = "settled", !.promise = "rejected",
                          !.value = "request error"]
  /\ UNCHANGED <<now, db, videos, txq, calls, cleanup, ncalls, idb, player, hook, job>>

\* setTimeout(poll, interval) fires: the next status request
PollTimer ==
  /\ poll.pc = "timer"
  /\ poll.requests < MaxPolls
  /\ poll' = [poll EXCEPT !.pc = "request", !.requests = @ + 1]
  /\ UNCHANGED <<now, db, videos, txq, calls, cleanup, ncalls, idb, player, hook, job>>

\* useJobStatus: the effect, when jobId is not null, calls pollStatus()
useJobStatus ==
  /\ job.pc = "idle"
  /\ job.jobId # "null"
  /\ job' = [job EXCEPT !.pc = "request", !.requests = 1]
  /\ UNCHANGED <<now, db, videos, txq, calls, cleanup, ncalls, idb, player, hook, poll>>

\* pollStatus(): getJobStatus resolved with jobStatus
JobResponse(jobStatus) ==
  /\ job.pc = "request"
  /\ ServerAnswers([status |-> job.status, result |-> job.result], jobStatus)
  /\ job' = [job EXCEPT !.status = jobStatus.status, !.result = jobStatus.result,
                        !.pc = IF jobStatus.status = "in_progress"
                               THEN "timer" ELSE "stopped"]
  /\ UNCHANGED <<now, db, videos, txq, calls, cleanup, ncalls, idb, player, hook, poll>>

\* pollStatus(): getJobStatus rejected, setError
JobRequestError ==
  /\ job.pc = "request"
  /\ job' = [job EXCEPT !.error = "Failed to get job status", !.pc = "stopped"]
  /\ UNCHANGED <<now, db, videos, txq, calls, cleanup, ncalls, idb, player, hook, poll>>

\* setTimeout(pollStatus, 2000) fires
JobTimer ==
  /\ job.pc = "timer"
  /\ job.requests < MaxPolls
  /\ job' = [job EXCEPT !.pc = "request", !.requests = @ + 1]
  /\ UNCHANGED <<now, db, videos, txq, calls, cleanup, ncalls, idb, player, hook, poll>>

\* A video is being processed: pollJobStatus may be called, and a component
\* may use useJobStatus with the job id or with null
InitJ ==
  /\ now = 0
  /\ db = "null"
  /\ videos = {}
  /\ txq = <<>>
  /\ calls = [c \in Callers |-> IdleCall]
  /\ cleanup = NoCleanup
  /\ ncalls = 0
  /\ idb = NoDatabase
  /\ player = NoPlayer /\ hook = NoHook /\ poll = NoPoll
  /\ \E jobId \in {"null", "job"} : job = [NoJob EXCEPT !.jobId = jobId]

NextJ ==
  \/ pollJobStatus
  \/ \E status \in Responses : PollResponse(status)
  \/ PollRequestError
  \/ PollTimer
  \/ useJobStatus
  \/ \E jobStatus \in Responses : JobResponse(jobStatus)
  \/ JobRequestError
  \/ JobTimer

SpecJ == InitJ /\ [][NextJ]_vars

\* ------------------------------------------------------------ claims
\* A cleanup sweep has been triggered by a put and has not completed
CleanupPending ==
  \E i \in 1..Len(txq) : txq[i].kind \in {"cleanupGetAll", "cleanupDelete"}

\* C1: size invariant.  Once the sweep triggered by a put has completed, the
\* total size of the stored entries is at most MAX_CACHE_SIZE, and if that
\* sweep deleted anything the total is at most 0.8 * MAX_CACHE_SIZE or the
\* store is empty.
C1_SizeInvariant ==
  ~CleanupPending =>
    /\ SumSizes(videos) <= MAX_CACHE_SIZE
    /\ (cleanup.ran /\ cleanup.deleted # <<>>) =>
         (SumSizes(videos) <= CLEANUP_TARGET \/ videos = {})

\* A sweep deleted something and left a non-empty store at exactly the target
C1_Witness ==
  /\ ~CleanupPending
  /\ cleanup.ran /\ cleanup.deleted # <<>> /\ cleanup.applied
  /\ videos # {}
  /\ SumSizes(videos) = CLEANUP_TARGET

\* The total left when the first n entries of es are removed
Remaining(es, n) == SumSeq(SubSeq(es, n + 1, Len(es)))

\* The length of the shortest prefix of es whose removal meets the target
ShortestPrefix(es) ==
  CHOOSE n \in 0..Len(es) :
    /\ Remaining(es, n) <= CLEANUP_TARGET
    /\ \A m \in 0..(n - 1) : Remaining(es, m) > CLEANUP_TARGET

\* C2: eviction order.  The entries a sweep reads are ordered oldest first; it
\* deletes nothing when their total is at most MAX_CACHE_SIZE, and otherwise
\* exactly the shortest prefix of that order whose removal brings the total to
\* at most 0.8 * MAX_CACHE_SIZE; once the deletions are applied, no entry of
\* that prefix is left and none was deleted beyond it.
C2_EvictionOrder ==
  cleanup.ran =>
    LET es == cleanup.entries
        n == IF cleanup.totalSize > MAX_CACHE_SIZE THEN ShortestPrefix(es) ELSE 0
    IN /\ \A i, j \in 1..Len(es) :
            i < j => ParseDate(es[i].timestamp) <= ParseDate(es[j].timestamp)
       /\ cleanup.totalSize = SumSeq(es)
       /\ cleanup.deleted = [i \in 1..n |-> es[i].path]
       /\ cleanup.applied =>
            videos \subseteq {es[i] : i \in (n + 1)..Len(es)}

\* The worked example, scaled to MAX_CACHE_SIZE: three entries of 0.4 *
\* MAX_CACHE_SIZE with increasing timestamps, only the oldest is deleted and
\* the two newer ones are the final contents
C2_Witness ==
  /\ cleanup.ran /\ cleanup.applied /\ ~CleanupPending
  /\ Len(cleanup.entries) = 3
  /\ \A i \in 1..3 : cleanup.entries[i].size = (MAX_CACHE_SIZE \div 5) * 2
  /\ \A i \in 1..2 : ParseDate(cleanup.entries[i].timestamp)
                       < ParseDate(cleanup.entries[i + 1].timestamp)
  /\ cleanup.deleted = << cleanup.entries[1].path >>
  /\ videos = {cleanup.entries[2], cleanup.entries[3]}

\* The calls of getCachedVideoUrl (and so of fetchVideoWithCache) that returned
Got(c) == calls[c].op = "getCachedVideoUrl" /\ calls[c].pc = "done"

\* The store as a transaction created now will find it: the deletions already
\* queued are applied before it runs
RECURSIVE AfterPendingDeletes(_, _)
AfterPendingDeletes(S, q) ==
  IF q = <<>> THEN S
  ELSE LET t == Head(q)
           S1 == CASE t.kind = "expiryDelete" -> StoreDelete(S, t.path)
                   [] t.kind = "cleanupDelete" -> DeleteAll(S, t.paths)
                   [] t.kind = "clear" -> {}
                   [] OTHER -> S
       IN AfterPendingDeletes(S1, Tail(q))

\* The age in days, at time t, of an entry
Age(e, t) == t - ParseDate(e.timestamp)

\* C3: TTL invariant.  A get that finds the entry of its key older than 30
\* days does not return the stored blob (it returns a blob fetched from the
\* network, or fails with the transport error), and the old entry is no
\* longer in the store afterwards, whether or not the fetch succeeded.
C3_TtlInvariant ==
  \A c \in Callers :
    (Got(c) /\ calls[c].result # NoEntry
       /\ Age(calls[c].result, calls[c].checkedAt) > CACHE_EXPIRY_DAYS) =>
      /\ calls[c].found = NoEntry
      /\ \/ calls[c].fetched = BlobRes(calls[c].blob, "network")
         \/ calls[c].fetched = ErrorRes("HTTP")
      /\ calls[c].result \notin AfterPendingDeletes(videos, txq)

\* A get found an expired entry, its fetch failed, and the entry is gone
C3_Witness ==
  \E c \in Callers :
    /\ Got(c) /\ calls[c].result # NoEntry
    /\ Age(calls[c].result, calls[c].checkedAt) > CACHE_EXPIRY_DAYS
    /\ calls[c].fetched.kind = "error"
    /\ txq = <<>> /\ calls[c].result \notin videos

\* The previous call of this caller put an entry for the same key, and this
\* get checked the cache before that entry's expiry
PutThenGet(c) ==
  /\ Got(c)
  /\ calls[c].prev.wrote # NoEntry
  /\ Age(calls[c].prev.wrote, calls[c].checkedAt) <= CACHE_EXPIRY_DAYS

\* C4 as claimed: put(key, blob) then get(key) before TTL expiry returns the
\* blob stored, for every blob size.
C4_RoundTripAnySize ==
  \A c \in Callers :
    PutThenGet(c) =>
      calls[c].fetched.kind = "blob" /\ calls[c].fetched.blob = calls[c].prev.wrote.blob

\* C4 amended: put(key, blob) then get(key) before TTL expiry returns, from
\* the cache, the blob stored, unless a cleanup sweep has deleted the entry in
\* between.
C4_RoundTripUnlessEvicted ==
  \A c \in Callers :
    (PutThenGet(c) /\ ~calls[c].prev.evicted) =>
      calls[c].fetched = BlobRes(calls[c].prev.wrote.blob, "cache")

\* A put of a blob that the sweep did not evict, read back after time passed
C4_Witness ==
  \E c \in Callers :
    /\ PutThenGet(c) /\ ~calls[c].prev.evicted
    /\ calls[c].checkedAt > ParseDate(calls[c].prev.wrote.timestamp)
    /\ calls[c].fetched = BlobRes(calls[c].prev.wrote.blob, "cache")
    /\ calls[c].found = calls[c].prev.wrote

\* The previous call of this caller was a get of the same key that returned a blob
GetTwice(c) == Got(c) /\ calls[c].prev.blob # NoBlob

\* This call wrote nothing and deleted nothing
NoWriteBy(c) ==
  /\ calls[c].wrote = NoEntry
  /\ ~(calls[c].result # NoEntry
         /\ Age(calls[c].result, calls[c].checkedAt) > CACHE_EXPIRY_DAYS)

\* C5 as claimed: get(key) twice returns identical blobs, and the statistics
\* of the store are after the second call what they were before it.
C5_IdempotentRead ==
  \A c \in Callers :
    GetTwice(c) =>
      /\ calls[c].fetched.kind = "blob"
      /\ calls[c].fetched.blob = calls[c].prev.blob
      /\ SumSizes(videos) = calls[c].prev.totalSize
      /\ Cardinality(videos) = calls[c].prev.entryCount

\* C5 amended: get(key) twice, the second one served from the cache, returns
\* identical blobs, and the second call neither writes nor deletes an entry.
C5_IdempotentHit ==
  \A c \in Callers :
    (GetTwice(c) /\ calls[c].found # NoEntry) =>
      /\ calls[c].fetched = BlobRes(calls[c].prev.blob, "cache")
      /\ NoWriteBy(c)

\* Two hits in a row: the first get was itself served from the cache
C5_Witness ==
  \E c \in Callers :
    /\ GetTwice(c) /\ calls[c].found # NoEntry
    /\ calls[c].prev.wrote = NoEntry
    /\ calls[c].fetched = BlobRes(calls[c].prev.blob, "cache")
    /\ SumSizes(videos) = calls[c].prev.totalSize

\* C6: when the fetch of a miss fails (non-success status or transport
\* failure), get fails with that error and writes no entry for the key: the
\* store holds for the key nothing but what the cache check found, and nothing
\* if it found nothing.
C6_FailedFetchWritesNothing ==
  \A c \in Callers :
    (Got(c) /\ calls[c].response = "error") =>
      /\ calls[c].fetched = ErrorRes("HTTP")
      /\ calls[c].wrote = NoEntry
      /\ \A i \in 1..Len(txq) : txq[i].kind # "put"
      /\ StoreGet(calls[c].path) \in {NoEntry, calls[c].result}
      /\ calls[c].result = NoEntry => StoreGet(calls[c].path) = NoEntry

\* Empty cache, failed fetch: the cache is still empty
C6_Witness ==
  \E c \in Callers :
    /\ Got(c) /\ calls[c].response = "error"
    /\ calls[c].fetched.kind = "error"
    /\ ncalls = 1 /\ db = "open" /\ videos = {} /\ txq = <<>>

\* C7: getCachedVideoUrl never fails.  For every path and every outcome of
\* the store and of the network it returns a URL: the object URL of the blob
\* that fetchVideoWithCache returned, or, when fetchVideoWithCache failed,
\* exactly getVideoUrl(path).
C7_AlwaysReturnsUrl ==
  \A c \in Callers :
    Got(c) =>
      /\ calls[c].fetched.kind \in {"blob", "error"}
      /\ calls[c].res.kind = "url"
      /\ calls[c].fetched.kind = "blob" =>
           calls[c].res.url = <<"blob:", calls[c].fetched.blob.data>>
      /\ calls[c].fetched.kind = "error" =>
           calls[c].res.url = getVideoUrl(calls[c].path)

\* The fetch failed for a path with a leading slash: the fallback URL
C7_Witness ==
  \E c \in Callers :
    /\ Got(c) /\ calls[c].path = <<"/", "p">>
    /\ calls[c].fetched = ErrorRes("HTTP")
    /\ calls[c].res = UrlRes(<<"API_ROOT_URL", "/", "p">>)

\* The transaction about to run was created by a call of isVideoCached itself
\* (not by the isVideoCached that fetchVideoWithCache calls)
ByIsVideoCached == txq # <<>> /\ Head(txq).op = "isVideoCached"

\* C8 as claimed: isVideoCached is side-effect-free; no transaction it creates
\* changes the store, also when it found the entry expired.
C8_SideEffectFree ==
  [][ ByIsVideoCached => videos' = videos ]_vars

\* C8 amended: isVideoCached modifies no entry, and deletes none except, when
\* it found the entry of its key expired, the entry stored under that key.
C8_DeletesOnlyExpiredKey ==
  [][ ByIsVideoCached =>
        \/ videos' = videos
        \/ /\ Head(txq).kind = "expiryDelete"
           /\ Head(txq).entry # NoEntry
           /\ Head(txq).entry.path = Head(txq).path
           /\ Age(Head(txq).entry, now) > CACHE_EXPIRY_DAYS
           /\ videos' = {e \in videos : e.path # Head(txq).path} ]_vars

\* isVideoCached found an expired entry, answered false, and the entry is gone
C8_Witness ==
  \E c \in Callers :
    /\ calls[c].op = "isVideoCached" /\ calls[c].pc = "done"
    /\ calls[c].res = BoolRes(FALSE)
    /\ calls[c].result # NoEntry
    /\ Age(calls[c].result, calls[c].checkedAt) > CACHE_EXPIRY_DAYS
    /\ txq = <<>>
    /\ videos # {} /\ StoreGet(calls[c].path) = NoEntry

\* C9: isVideoCached returns true exactly when the store holds an entry for
\* the key and that entry is at most 30 days old: true at exactly 30 days,
\* false beyond, false for an absent key.
C9_CachedIffFresh ==
  [][ \A c \in Callers :
        (calls[c].op = "isVideoCached" /\ calls[c].pc # "done"
           /\ calls'[c].pc = "done") =>
          /\ calls'[c].res.kind = "bool"
          /\ calls'[c].res.value =
               (\E e \in videos : /\ e.path = calls[c].path
                                  /\ now - ParseDate(e.timestamp) <= CACHE_EXPIRY_DAYS)
    ]_vars

\* An entry aged exactly 30 days was reported cached
C9_Witness ==
  \E c \in Callers :
    /\ calls[c].op = "isVideoCached" /\ calls[c].pc = "done"
    /\ calls[c].res = BoolRes(TRUE)
    /\ calls[c].result # NoEntry
    /\ Age(calls[c].result, calls[c].checkedAt) = CACHE_EXPIRY_DAYS

\* C10: write-path ordering.  When a get that put an entry returns, the
\* cleanup sweep that its put triggered has completed, deletions included.
C10_SweepBeforeReturn ==
  \A c \in Callers :
    (Got(c) /\ calls[c].wrote # NoEntry) => ~CleanupPending

\* The cache check of call c was a miss: no entry, or an expired one
CheckMissed(cr) ==
  \/ cr.result = NoEntry
  \/ Age(cr.result, cr.checkedAt) > CACHE_EXPIRY_DAYS

\* A get that read an entry back returned its blob, made no network request
\* and put nothing
HitFrame(c) ==
  (Got(c) /\ calls[c].found # NoEntry) =>
    /\ calls[c].fetched = BlobRes(calls[c].found.blob, "cache")
    /\ calls[c].response = "none"
    /\ calls[c].wrote = NoEntry
    /\ ~CheckMissed(calls[c])

\* C11: a get that finds a non-expired entry returns the stored blob, issues
\* no network request and leaves the store unchanged; an entry is added, or
\* its blob or timestamp changed, only by the put of a get whose cache check
\* missed and whose fetch succeeded.
C11_HitLeavesStore ==
  [][ /\ \A c \in Callers : HitFrame(c)'
      /\ \A c \in Callers :
           (calls[c].found = NoEntry /\ calls'[c].found # NoEntry) => videos' = videos
      /\ \A e \in videos' \ videos :
           /\ txq # <<>> /\ Head(txq).kind = "put" /\ e = Head(txq).entry
           /\ calls[Head(txq).call].response = "ok"
           /\ CheckMissed(calls[Head(txq).call]) ]_vars

\* A hit some time after the put: the entry is still as it was written
C11_Witness ==
  \E c \in Callers :
    /\ Got(c) /\ calls[c].found # NoEntry
    /\ calls[c].found \in videos
    /\ calls[c].checkedAt > ParseDate(calls[c].found.timestamp)
    /\ calls[c].fetched = BlobRes(calls[c].found.blob, "cache")
    /\ calls[c].response = "none"

\* C12: cache keys are normalized paths; two paths that differ only in
\* leading '/' denote one entry, so the store never holds two entries for them.
C12_NormalizedKeys ==
  \A e, f \in videos :
    StripLeadingSlashes(e.path) = StripLeadingSlashes(f.path) => e = f

\* C15: a not-found condition is never surfaced to the caller of get; get
\* ends with a blob or with the transport error.
C15_NotFoundNeverSurfaced ==
  \A c \in Callers :
    Got(c) => calls[c].fetched # ErrorRes("Video not found in cache")

\* C16: storage failures never fail get.  When indexedDB.open fails the
\* lookup behaves as a miss, and when the store rejects the put the failure is
\* swallowed: in both cases get went to the network, returns the fetched blob
\* when the fetch succeeded and fails with the transport error otherwise.
C16_StorageFailuresSwallowed ==
  \A c \in Callers :
    (Got(c) /\ calls[c].failures \cap {"open", "put"} # {}) =>
      /\ calls[c].response \in {"ok", "error"}
      /\ calls[c].found = NoEntry
      /\ calls[c].response = "ok" =>
           calls[c].fetched = BlobRes(calls[c].blob, "network")
      /\ calls[c].response = "error" => calls[c].fetched = ErrorRes("HTTP")

\* The put was rejected: the blob is returned and the store has no entry
C16_Witness ==
  \E c \in Callers :
    /\ Got(c) /\ calls[c].failures = {"put"}
    /\ calls[c].blob # NoBlob
    /\ calls[c].fetched = BlobRes(calls[c].blob, "network")
    /\ StoreGet(calls[c].path) = NoEntry

\* Call c is a getCacheStats that returns in this step
StatsReturns(c) ==
  /\ calls[c].op = "getCacheStats" /\ calls[c].pc # "done"
  /\ calls'[c].pc = "done"

\* C17: getCacheStats never fails.  When the store opens and is read it
\* returns isSupported = true, the number of stored entries and the sum of
\* their sizes; when the open or the read fails it returns isSupported =
\* false with totalSize = 0 and entryCount = 0.
C17_StatsNeverFails ==
  [][ \A c \in Callers :
        StatsReturns(c) =>
          calls'[c].res = IF calls'[c].failures = {}
                          THEN StatsRes(SumSizes(videos), Cardinality(videos), TRUE)
                          ELSE StatsRes(0, 0, FALSE) ]_vars

\* Statistics of a store with two entries
C17_Witness ==
  \E c \in Callers :
    /\ calls[c].op = "getCacheStats" /\ calls[c].pc = "done"
    /\ calls[c].failures = {}
    /\ Cardinality(videos) = 2
    /\ calls[c].res = StatsRes(SumSizes(videos), 2, TRUE)
    /\ calls[c].res.totalSize = 400 * MB

\* What isVideoCached answers for a key when it reads store S at time t
IsCachedIn(S, path, t) ==
  \E e \in S : e.path = path /\ ~IsExpired(e, t)

\* C18: clearVideoCache removes all records.  Once it has completed, and
\* until the next call, the store has no entries, the statistics are
\* totalSize = 0 and entryCount = 0, and no key is cached.
C18_ClearRemovesAll ==
  \A c \in Callers :
    (calls[c].op = "clearVideoCache" /\ calls[c].pc = "done") =>
      /\ calls[c].res = VoidRes
      /\ videos = {}
      /\ \A i \in 1..Len(txq) : txq[i].kind # "put"
      /\ SumSizes(videos) = 0 /\ Cardinality(videos) = 0
      /\ \A path \in Paths : ~IsCachedIn(videos, path, now)

\* The last sweep saw entries and deleted none of them; clear has removed them
C18_Witness ==
  \E c \in Callers :
    /\ calls[c].op = "clearVideoCache" /\ calls[c].pc = "done"
    /\ cleanup.ran /\ Len(cleanup.entries) = 2 /\ cleanup.deleted = <<>>
    /\ txq = <<>> /\ videos = {}

\* The store holds at most one entry per key, and each entry is a blob that
\* a fetch delivered, with the size of that blob
OneEntryPerKey ==
  /\ \A e, f \in videos : e.path = f.path => e = f
  /\ \A e \in videos : e.blob \in Blobs /\ e.size = e.blob.size

\* C13: two concurrent getCachedVideoUrl misses on one key may both fetch
\* and both put, but the store always holds at most one entry for the key,
\* whose size is the size of its blob and whose blob is the payload of one
\* completed fetch; every put replaces the entry of its key by the payload of
\* the call that put it, so the put that completes last determines the entry.
C13_LastWriteWins ==
  [][ /\ OneEntryPerKey'
      /\ \A e \in videos' \ videos :
           /\ txq # <<>> /\ Head(txq).kind = "put" /\ e = Head(txq).entry
           /\ calls[Head(txq).call].response = "ok"
           /\ e.path = calls[Head(txq).call].path
           /\ e.blob = calls[Head(txq).call].blob
      /\ \A c \in DOMAIN calls :
           (calls[c].wrote = NoEntry /\ calls'[c].wrote # NoEntry) =>
             /\ calls'[c].wrote = CacheEntry(calls[c].path, calls[c].blob,
                                             ParseDate(calls'[c].wrote.timestamp))
             /\ {e \in videos' : e.path = calls[c].path} = {calls'[c].wrote} ]_vars

\* Both callers missed on the same key, fetched different payloads and put
\* them: the store holds one entry, the one of the second put
C13_Witness ==
  /\ DOMAIN calls = ConcurrentCallers
  /\ \E c, d \in DOMAIN calls :
       /\ c # d /\ Got(c) /\ Got(d)
       /\ calls[c].path = calls[d].path
       /\ calls[c].wrote # NoEntry /\ calls[d].wrote # NoEntry
       /\ calls[c].blob # calls[d].blob
       /\ {e \in videos : e.path = calls[c].path} = {calls[d].wrote}
       /\ Cardinality(videos) = 1

\* C14: open-once.  Concurrent first-use calls made before the store handle
\* exists share one open request: at most one indexedDB.open is pending.
C14_OpenOnce ==
  Cardinality({c \in DOMAIN calls : calls[c].pc = "open"}) <= 1

\* Call c is inside isVideoAccessible before or after this step
Probing(c) ==
  \/ calls[c].op = "isVideoAccessible" /\ calls[c].pc = "head"
  \/ calls'[c].op = "isVideoAccessible" /\ calls'[c].pc = "head"

\* C19: isVideoAccessible returns true only when the HEAD request to
\* getVideoUrl(path) answers ok, returns false on any failure and never
\* throws, and neither opens the store nor creates a transaction nor changes
\* an entry.
C19_ProbeLeavesCache ==
  [][ \A c \in Callers :
        (Probing(c) /\ calls'[c] # calls[c]) =>
          /\ videos' = videos /\ txq' = txq /\ db' = db
          /\ calls'[c].pc = "head" => calls'[c].res = UrlRes(getVideoUrl(calls'[c].path))
          /\ calls'[c].pc = "done" =>
               /\ calls'[c].res.kind = "bool"
               /\ calls'[c].res.value = (calls'[c].response = "ok") ]_vars

\* The probe answered true while the store has entries and a sweep is queued
C19_Witness ==
  \E c \in Callers :
    /\ calls[c].op = "isVideoAccessible" /\ calls[c].pc = "done"
    /\ calls[c].res = BoolRes(TRUE)
    /\ videos # {} /\ CleanupPending

Quiescent ==
  /\ txq = <<>>
  /\ \A c \in DOMAIN calls : calls[c].pc \in {"idle", "done"}

\* C23: under any interleaving of concurrent gets, each put followed by its
\* own sweep, once all gets and all sweeps have completed the total stored
\* size is at most MAX_CACHE_SIZE.
C23_ConcurrentSizeBound ==
  Quiescent => SumSizes(videos) <= MAX_CACHE_SIZE

\* Two concurrent gets on distinct keys put 650 MB in all; a sweep removed one
\* entry and the other one stays
C23_Witness ==
  /\ Quiescent
  /\ \E c, d \in DOMAIN calls :
       /\ Got(c) /\ Got(d) /\ calls[c].path # calls[d].path
       /\ calls[c].wrote # NoEntry /\ calls[d].wrote # NoEntry
       /\ calls[c].wrote.size + calls[d].wrote.size > MAX_CACHE_SIZE
       /\ calls[c].evicted /\ videos = {calls[d].wrote}

\* C24: the TTL purge is lazy and per key.  An entry leaves the store only by
\* the expiry delete of its own key, by a sweep that lists its key, by clear,
\* or by a put of its key; time alone removes nothing, and getCacheStats
\* counts every stored entry, expired or not.
C24_LazyPerKeyPurge ==
  [][ /\ \A e \in videos \ videos' :
           /\ txq # <<>>
           /\ \/ Head(txq).kind = "expiryDelete" /\ Head(txq).path = e.path
              \/ Head(txq).kind = "cleanupDelete"
                   /\ \E k \in 1..Len(Head(txq).paths) : Head(txq).paths[k] = e.path
              \/ Head(txq).kind = "clear"
              \/ Head(txq).kind = "put" /\ Head(txq).path = e.path
      /\ \A c \in Callers :
           StatsReturns(c) =>
             /\ calls'[c].res.entryCount = Cardinality(videos)
             /\ calls'[c].res.totalSize = SumSizes(videos) ]_vars

\* getCacheStats counted an entry that expired and was never read again
C24_Witness ==
  \E c \in Callers :
    /\ calls[c].op = "getCacheStats" /\ calls[c].pc = "done"
    /\ calls[c].res.entryCount = 2
    /\ Cardinality(videos) = 2
    /\ \E e \in videos : IsExpired(e, now)
    /\ \E e \in videos : ~IsExpired(e, now)

\* C26: an expiry purge removes only the expired entry it observed; a fresh
\* entry that a concurrent get has put under the same key before the delete is
\* applied is not deleted.
C26_PurgeRemovesObserved ==
  [][ (txq # <<>> /\ Head(txq).kind = "expiryDelete" /\ txq' = Tail(txq)) =>
        videos \ videos' \subseteq {Head(txq).entry} ]_vars

\* C27: a size eviction sweep deletes only entries as it read them in its
\* snapshot; an entry put under one of its keys after the snapshot is not
\* deleted by that sweep.
C27_SweepRemovesSnapshot ==
  [][ (txq # <<>> /\ Head(txq).kind = "cleanupDelete" /\ txq' = Tail(txq)) =>
        videos \ videos' \subseteq Head(txq).entries ]_vars

\* The entry whose put started the latest sweep is in the sweep's snapshot
\* with a timestamp strictly greater than every other entry there
PutIsLatest ==
  /\ cleanup.ran
  /\ \E k \in 1..Len(cleanup.entries) : cleanup.entries[k] = cleanup.put
  /\ \A k \in 1..Len(cleanup.entries) :
       cleanup.entries[k] # cleanup.put =>
         SeqLess(cleanup.entries[k].timestamp, cleanup.put.timestamp)

\* The sweep deleted the entry of its put only after every other entry, and
\* not at all when it is no larger than 0.8 * MAX_CACHE_SIZE
OwnEntryLast ==
  PutIsLatest =>
    /\ (\E k \in 1..Len(cleanup.deleted) : cleanup.deleted[k] = cleanup.put.path) =>
          Len(cleanup.deleted) = Len(cleanup.entries)
    /\ cleanup.put.size <= CLEANUP_TARGET =>
          \A k \in 1..Len(cleanup.deleted) : cleanup.deleted[k] # cleanup.put.path

\* C28: with strictly increasing timestamps the sweep triggered by a put
\* deletes the entry just written only after every other entry; so an entry of
\* size <= 0.8 * MAX_CACHE_SIZE is not removed by its own sweep and is a hit
\* on the next get before TTL expiry.
C28_OwnEntrySurvives ==
  /\ OwnEntryLast
  /\ \A c \in Callers :
       (PutThenGet(c) /\ calls[c].prev.latest
          /\ calls[c].prev.wrote.size <= CLEANUP_TARGET) =>
         calls[c].fetched = BlobRes(calls[c].prev.wrote.blob, "cache")

\* Every call of loadVideo has returned
LoadsCompleted ==
  /\ player.nloads > 0
  /\ \A c \in ConcurrentCallers : player.loads[c].pc = "none"

\* C21: when the player switches from exercise A to exercise B while A's load
\* is in flight, then for every completion order, once both loads have
\* completed the video shown is the one of the current exercise, never A's.
C21_ShowsCurrentExercise ==
  LoadsCompleted => player.shown = player.currentExercise.id

\* The load of slot c returns in this step
LoadReturns(c) ==
  player.loads[c].pc = "getCachedVideoUrl" /\ player'.loads[c].pc = "none"

\* C22: when the cached fetch fails with a transport error and the direct
\* network reference is unusable too (the server does not answer), the player
\* ends with the placeholder of getFallbackVideoUrl as its video reference.
C22_PlaceholderOnFailure ==
  [][ \A c \in ConcurrentCallers :
        (LoadReturns(c) /\ calls[c].fetched = ErrorRes("HTTP") /\ ~player.reachable) =>
          player'.videoUrl = getFallbackVideoUrl(player.loads[c].exercise.video_path) ]_vars

\* C30: the current exercise is always an element of the list; next on the
\* last element and previous on the first leave it unchanged; every other
\* next or previous moves the index by exactly one, and nothing else moves it.
C30_NavigationInsideList ==
  [][ LET i == currentIndex(player)
          j == currentIndex(player')
          last == Len(Exercises) - 1
      IN /\ i \in 0..last /\ At(Exercises, i) = player.currentExercise
         /\ j \in 0..last /\ At(Exercises, j) = player'.currentExercise
         /\ IF player'.input.flip # player.input.flip
            THEN /\ player'.input.dir = "next" => j = (IF i = last THEN i ELSE i + 1)
                 /\ player'.input.dir = "previous" => j = (IF i = 0 THEN i ELSE i - 1)
                 /\ player'.input.dir = "none" => j = i
            ELSE j = i ]_vars

\* From the second clip, next moved to the last one
C30_Witness ==
  /\ player.input.dir = "next"
  /\ currentIndex(player) = Len(Exercises) - 1
  /\ player.nloads = 2
  /\ \E c \in ConcurrentCallers : player.loads[c].exercise.id = 2

\* The exercises of the ids whose individual request succeeded, in order
RECURSIVE Succeeded(_, _)
Succeeded(ids, outcomes) ==
  IF Len(ids) = 0 \/ Len(outcomes) = 0 THEN <<>>
  ELSE (IF Head(outcomes) = "ok" THEN <<Exercise(Head(ids))>> ELSE <<>>)
         \o Succeeded(Tail(ids), Tail(outcomes))

\* C25: when the bulk request fails, useExercisesByIds issues one request per
\* id in the order of exerciseIds, a failed request does not stop the others,
\* and the hook yields exactly the exercises whose request succeeded, in that
\* order, with error = null and loading = false.
C25_BulkFallback ==
  hook.bulkFailed =>
    /\ hook.requested = SubSeq(hook.exerciseIds, 1, Len(hook.requested))
    /\ hook.pc = "individual" => Len(hook.requested) = Len(hook.outcomes) + 1
    /\ hook.pc = "done" =>
         /\ hook.requested = hook.exerciseIds
         /\ Len(hook.outcomes) = Len(hook.exerciseIds)
         /\ hook.data = [null |-> FALSE,
                         value |-> Succeeded(hook.exerciseIds, hook.outcomes)]
         /\ hook.error = "null"
         /\ hook.loading = FALSE

\* The bulk request failed, then the second of three requests failed and the
\* third was still made: the hook yields the first and the third exercise
C25_Witness ==
  /\ hook.pc = "done" /\ hook.bulkFailed
  /\ hook.outcomes = <<"ok", "error", "ok">>
  /\ Len(hook.data.value) = 2

\* C29: pollJobStatus terminates: once the server reports 'done' or 'failed',
\* whatever the result field holds, the promise settles (resolved on done,
\* rejected on failed or on a request error), and no status request is issued
\* after it has settled.
C29_PollTerminates ==
  [][ /\ poll'.last.status \in {"done", "failed"} => poll'.promise # "pending"
      /\ poll'.promise = "resolved" => poll'.last.status = "done"
      /\ poll'.promise = "rejected" =>
           poll'.last.status = "failed" \/ poll'.value = "request error"
      /\ poll.promise # "pending" => poll'.requests = poll.requests ]_vars

====
